---- MODULE Spec2Model ----
(***************************************************************************)
(* Model of the agent execution loop (src/src/agent/agent.py), the tool    *)
(* registry (src/src/agent/tools.py), the document chunker                 *)
(* (src/src/rag/document_processor.py) and the vector database             *)
(* (src/src/rag/embeddings.py).                                            *)
(*                                                                         *)
(* Text is modelled as a sequence of fragments taken from a finite         *)
(* vocabulary; the text is the concatenation of its fragments.  The two    *)
(* substring tests of the agent ("{" in response, "tool" in response), the *)
(* find/rfind slice and json.loads are computed on the fragments.  A       *)
(* fragment that carries braces of its own (an "args" object) ends with    *)
(* its closing brace and only occurs after a standalone "{" fragment, so   *)
(* that the first "{" of a text is always a fragment of its own.           *)
(***************************************************************************)
EXTENDS Integers, Sequences, FiniteSets, TLC

\* Largest iteration budget (max_iterations) an agent is constructed with.
MaxBudget == 2

\* The two invocations of execute_query made on the one agent instance.
Calls == {"A", "B"}

Queries == {"What is 2 + 2?", "Tell me about RAG"}

\* Largest chunk_size, and chunk_overlap, a chunker is constructed with.
MaxChunkSize == 3

\* Longest text over the whole alphabet given to chunk_text.
MaxTextLen == 4

\* Most words of a text of one-letter words given to chunk_text.
MaxWords == 6

\* Most passages of one add_documents call, and most passages handed to the
\* one database over all its calls.
MaxDocs == 2
MaxAdded == 5

\* Largest top_k given to retrieve.
MaxTopK == 2

\* Most calls of register made on a registry after its construction.
MaxRegister == 2

-----------------------------------------------------------------------------
(* Vocabulary of text fragments *)

Prose == "The answer is 4"
ProseTool == "I will use a tool"
Open == "{"
Close == "}"
Comma == ","

ToolCalculator == "\"tool\": \"calculator\""
ToolWebSearch == "\"tool\": \"web_search\""
ToolKnowledgeBase == "\"tool\": \"knowledge_base_search\""
ToolUnknown == "\"tool\": \"does-not-exist\""
ToolList == "\"tool\": [\"calculator\"]"
ToolTruncated == "\"tool\": \"calc"
ArgsSum == "\"args\": {\"expression\": \"2 + 2\"}"
ArgsInvalid == "\"args\": {\"expression\": \"invalid + expression\"}"
ArgsQuery == "\"args\": {\"query\": \"rag\"}"
ArgsEmpty == "\"args\": {}"
ArgsNull == "\"args\": null"
NameMember == "\"name\": \"calculator\""

ToolMembers == {ToolCalculator, ToolWebSearch, ToolKnowledgeBase, ToolUnknown, ToolList}
ArgsMembers == {ArgsSum, ArgsInvalid, ArgsQuery, ArgsEmpty, ArgsNull}
\* the fragments that are a complete JSON member  "key": value
Members == ToolMembers \cup ArgsMembers \cup {NameMember}

\* "{" in fragment, "}" in fragment, "tool" in fragment
HasOpen(f) == f \in {Open, ArgsSum, ArgsInvalid, ArgsQuery, ArgsEmpty}
HasClose(f) == f \in {Close, ArgsSum, ArgsInvalid, ArgsQuery, ArgsEmpty}
HasTool(f) == f \in ToolMembers \cup {ToolTruncated, ProseTool}

MemberKey(f) ==
  IF f \in ToolMembers THEN "tool" ELSE IF f \in ArgsMembers THEN "args" ELSE "name"

\* The decoded value of a "tool" member: a string, or a JSON array (a Python
\* list, which is not hashable).
ToolValue(f) ==
  CASE f = ToolCalculator -> [hashable |-> TRUE, str |-> "calculator"]
    [] f = ToolWebSearch -> [hashable |-> TRUE, str |-> "web_search"]
    [] f = ToolKnowledgeBase -> [hashable |-> TRUE, str |-> "knowledge_base_search"]
    [] f = ToolUnknown -> [hashable |-> TRUE, str |-> "does-not-exist"]
    [] OTHER -> [hashable |-> FALSE, str |-> "['calculator']"]

NoKwargs == [k \in {} |-> ""]

\* The decoded value of an "args" member: a JSON object (a Python dict of
\* keyword arguments) or null (None).
ArgsValue(f) ==
  CASE f = ArgsSum -> [mapping |-> TRUE, kwargs |-> [k \in {"expression"} |-> "2 + 2"]]
    [] f = ArgsInvalid -> [mapping |-> TRUE, kwargs |-> [k \in {"expression"} |-> "invalid + expression"]]
    [] f = ArgsQuery -> [mapping |-> TRUE, kwargs |-> [k \in {"query"} |-> "rag"]]
    [] f = ArgsEmpty -> [mapping |-> TRUE, kwargs |-> NoKwargs]
    [] OTHER -> [mapping |-> FALSE, kwargs |-> NoKwargs]

ToolCallText(t, a) == <<Open, t, Comma, a, Close>>
ToolOnlyText(t) == <<Open, t, Close>>

\* Responses the generation capability may return.
PlainResponses == {<<>>, <<Prose>>, <<ProseTool>>, <<Open, Close>>, <<Open, ArgsEmpty, Close>>}
WellFormedCalls ==
  {ToolCallText(t, a) : t \in ToolMembers, a \in ArgsMembers}
    \cup {ToolOnlyText(t) : t \in ToolMembers}
    \cup {<<ProseTool>> \o ToolCallText(ToolCalculator, ArgsSum),
          <<Open, ToolUnknown, Comma, ToolCalculator, Comma, ArgsSum, Close>>}
MalformedCalls ==
  {<<Open, ToolTruncated>>, <<Open, ToolCalculator>>,
   <<Open, ToolCalculator, Comma, ArgsSum>>,
   <<Close, Open, ToolCalculator>>,
   <<Open, ToolCalculator, ArgsSum, Close>>,
   <<Open, ToolCalculator, Comma, Close>>}
KeylessObjects ==
  {<<ProseTool, Open, Close>>, <<ProseTool, Open, NameMember, Close>>,
   <<ProseTool, Open, ArgsSum, Close>>}
Responses == PlainResponses \cup WellFormedCalls \cup MalformedCalls \cup KeylessObjects

-----------------------------------------------------------------------------
(* Parsing of a response: AIAgent._should_use_tool, AIAgent._parse_tool_call *)

Max(S) == CHOOSE x \in S : \A y \in S : y <= x
Min(S) == CHOOSE x \in S : \A y \in S : x <= y

\* str.find("{"): index of the first fragment holding "{", 0 when there is none
find_open(response) ==
  LET I == {i \in 1..Len(response) : HasOpen(response[i])}
  IN IF I = {} THEN 0 ELSE Min(I)

\* str.rfind("}") + 1: index of the last fragment holding "}", 0 when there is none
rfind_close(response) ==
  LET I == {i \in 1..Len(response) : HasClose(response[i])}
  IN IF I = {} THEN 0 ELSE Max(I)

NoToolValue == [hashable |-> TRUE, str |-> ""]
NoArgsValue == [mapping |-> TRUE, kwargs |-> NoKwargs]

\* json.loads(json_str): raises unless json_str is  { member , member ... } ;
\* a key given twice keeps its last value.
json_loads(json_str) ==
  LET n == Len(json_str)
      inner == SubSeq(json_str, 2, n - 1)
      m == Len(inner)
      valid == /\ n >= 2
               /\ json_str[1] = Open
               /\ json_str[n] = Close
               /\ \/ m = 0
                  \/ /\ m % 2 = 1
                     /\ \A i \in 1..m : IF i % 2 = 1 THEN inner[i] \in Members
                                                     ELSE inner[i] = Comma
      Last(key) == Max({i \in 1..m : i % 2 = 1 /\ MemberKey(inner[i]) = key})
      keys == {MemberKey(inner[i]) : i \in {j \in 1..m : j % 2 = 1}}
  IN IF ~valid
       THEN [raises |-> TRUE, keys |-> {}, tool |-> NoToolValue, args |-> NoArgsValue]
       ELSE [raises |-> FALSE,
             keys |-> keys,
             tool |-> IF "tool" \in keys THEN ToolValue(inner[Last("tool")]) ELSE NoToolValue,
             args |-> IF "args" \in keys THEN ArgsValue(inner[Last("args")]) ELSE NoArgsValue]

\* The test made on the start of the response only.
_should_use_tool_prefix(response) ==
  /\ response # <<>> /\ HasOpen(response[1])
  /\ \E i \in 1..Len(response) : HasTool(response[i])

\* AIAgent._should_use_tool
_should_use_tool(response) ==
  /\ \E i \in 1..Len(response) : HasOpen(response[i])
  /\ \E i \in 1..Len(response) : HasTool(response[i])

\* The value None of an Optional[Dict]
NoDict == [is_none |-> TRUE, keys |-> {}, tool |-> NoToolValue, args |-> NoArgsValue]

\* AIAgent._parse_tool_call: the parsed dict, or None when the test fails or
\* json.loads raises (bare except).
_parse_tool_call(response) ==
  IF /\ \E i \in 1..Len(response) : HasOpen(response[i])
     /\ \E i \in 1..Len(response) : HasTool(response[i])
    THEN LET start == find_open(response)
             end == rfind_close(response)
             parsed == json_loads(SubSeq(response, start, end))
         IN IF parsed.raises
              THEN NoDict
              ELSE [is_none |-> FALSE, keys |-> parsed.keys,
                    tool |-> parsed.tool, args |-> parsed.args]
    ELSE NoDict

\* Truth value of an Optional[Dict]: None and the empty dict are false.
DictTruthy(d) == ~d.is_none /\ d.keys # {}

-----------------------------------------------------------------------------
(* Tools and the tool registry: src/src/agent/tools.py *)

\* ToolResult.output: None, or the dict a tool builds.  text is the
\* expression or query, result the value or the number of results.
NoOutput == [is_none |-> TRUE, kind |-> "null", text |-> "", result |-> 0]
\* ToolResult.error = None
NoError == <<>>

ToolResult(success, output, error) ==
  [success |-> success, output |-> output, error |-> error]

KnowledgeBaseTool ==
  [name |-> "knowledge_base_search",
   description |-> "Search the knowledge base for relevant information"]
CalculatorTool == [name |-> "calculator", description |-> "Perform mathematical calculations"]
WebSearchTool == [name |-> "web_search", description |-> "Search the web for information"]

\* A registration that leaves a name that is present as it is
register_once(registry, tool) ==
  IF \E i \in 1..Len(registry) : registry[i].name = tool.name
    THEN registry
    ELSE Append(registry, tool)

\* ToolRegistry.register: self.tools[tool.name] = tool.  A dict keeps the
\* position of a key that is assigned again.
register(registry, tool) ==
  IF \E i \in 1..Len(registry) : registry[i].name = tool.name
    THEN [i \in 1..Len(registry) |->
            IF registry[i].name = tool.name THEN tool ELSE registry[i]]
    ELSE Append(registry, tool)

\* The tools _register_default_tools passes to register, in that order
DefaultTools(rag_pipeline) ==
  (IF rag_pipeline THEN <<KnowledgeBaseTool>> ELSE <<>>) \o <<CalculatorTool, WebSearchTool>>

\* ToolRegistry.__init__ and _register_default_tools
ToolRegistry(rag_pipeline) ==
  LET t0 == IF rag_pipeline THEN register(<<>>, KnowledgeBaseTool) ELSE <<>>
  IN register(register(t0, CalculatorTool), WebSearchTool)

\* ToolRegistry.list_tools
list_tools(registry) == [i \in 1..Len(registry) |-> registry[i].name]

RECURSIVE Join(_)
\* "\n".join(lines), each line a sequence of fragments
Join(lines) ==
  IF Len(lines) = 0 THEN <<>>
  ELSE IF Len(lines) = 1 THEN lines[1]
  ELSE lines[1] \o <<"\n">> \o Join(Tail(lines))

\* The list descriptions of get_tool_descriptions: one line per key of the
\* dict, in the order of the dict
descriptions(registry) ==
  [i \in 1..Len(registry) |-> <<"- ", registry[i].name, ": ", registry[i].description>>]

\* The lines joined from the last one to the first
get_tool_descriptions_reversed(registry) ==
  Join([i \in 1..Len(registry) |-> descriptions(registry)[Len(registry) + 1 - i]])

\* ToolRegistry.get_tool_descriptions
get_tool_descriptions(registry) == Join(descriptions(registry))

\* Parameters of each tool's execute method, and those without a default.
Params(name) ==
  CASE name = "calculator" -> {"expression"}
    [] name = "web_search" -> {"query"}
    [] OTHER -> {"query", "top_k"}
Required(name) ==
  CASE name = "calculator" -> {"expression"}
    [] OTHER -> {"query"}

\* Python's binding of keyword arguments to a method's parameters fails with
\* a TypeError on an unknown keyword and on a missing required parameter.
BindsTo(kwargs, name) ==
  /\ DOMAIN kwargs \subseteq Params(name)
  /\ Required(name) \subseteq DOMAIN kwargs

\* eval(expression, {"__builtins__": {}}, {"abs": abs, "round": round})
\* on the expressions of the model.  class is the class of the exception
\* raised: the last expression reaches the class Quitter of the interpreter
\* through the subclasses of object and calls an instance of it, which
\* raises SystemExit.
QuitterCall ==
  "[c for c in ().__class__.__base__.__subclasses__() if c.__name__ == 'Quitter'][0]('x', 'y')()"
Expressions ==
  {"2 + 2", "abs(-3)", "round(2.5)", "invalid + expression", "1/0", "2 +", QuitterCall}
eval(expression) ==
  CASE expression = "2 + 2" -> [raises |-> FALSE, value |-> 4, class |-> "", message |-> ""]
    [] expression = "abs(-3)" -> [raises |-> FALSE, value |-> 3, class |-> "", message |-> ""]
    [] expression = "round(2.5)" -> [raises |-> FALSE, value |-> 2, class |-> "", message |-> ""]
    [] expression = "1/0" ->
         [raises |-> TRUE, value |-> 0, class |-> "ZeroDivisionError",
          message |-> "division by zero"]
    [] expression = "2 +" ->
         [raises |-> TRUE, value |-> 0, class |-> "SyntaxError",
          message |-> "invalid syntax (<string>, line 1)"]
    [] expression = QuitterCall ->
         [raises |-> TRUE, value |-> 0, class |-> "SystemExit", message |-> "None"]
    [] OTHER ->
         [raises |-> TRUE, value |-> 0, class |-> "NameError",
          message |-> "name 'invalid' is not defined"]

\* The classes an "except Exception" clause does not catch
NotException == {"SystemExit", "KeyboardInterrupt", "GeneratorExit"}

\* CalculatorTool.execute lets the exception of eval leave the method
CalculatorRaises(expression) ==
  eval(expression).raises /\ eval(expression).class \in NotException

\* CalculatorTool.execute
CalculatorExecute(expression) ==
  LET r == eval(expression)
  IN IF r.raises
       THEN ToolResult(FALSE, NoOutput, <<"Calculation error: ", r.message>>)
       ELSE ToolResult(TRUE,
                       [is_none |-> FALSE, kind |-> "calculator",
                        text |-> expression, result |-> r.value],
                       NoError)

\* WebSearchTool.execute: one simulated result
WebSearchExecute(query) ==
  ToolResult(TRUE,
             [is_none |-> FALSE, kind |-> "web_search", text |-> query, result |-> 1],
             NoError)

\* KnowledgeBaseTool.execute: retrieve returns (here: no passage) or raises.
KnowledgeBaseExecute(query, retrieve_raises) ==
  IF retrieve_raises
    THEN ToolResult(FALSE, NoOutput, <<"retrieve failed">>)
    ELSE ToolResult(TRUE,
                    [is_none |-> FALSE, kind |-> "knowledge_base_search",
                     text |-> query, result |-> 0],
                    NoError)

NoResult == ToolResult(FALSE, NoOutput, NoError)

\* ToolRegistry.execute_tool(tool_name, **kwargs): the ToolResult returned,
\* or the exception that leaves the method.
execute_tool(registry, tool_name, kwargs, retrieve_raises) ==
  IF ~tool_name.hashable
    THEN [raises |-> TRUE, exception |-> "TypeError", result |-> NoResult]
  ELSE IF ~\E i \in 1..Len(registry) : registry[i].name = tool_name.str
    THEN [raises |-> FALSE, exception |-> "",
          result |-> ToolResult(FALSE, NoOutput, <<"Tool '", tool_name.str, "' not found">>)]
  ELSE IF ~BindsTo(kwargs, tool_name.str)
    THEN [raises |-> TRUE, exception |-> "TypeError", result |-> NoResult]
  ELSE IF tool_name.str = "calculator" /\ CalculatorRaises(kwargs["expression"])
    THEN [raises |-> TRUE, exception |-> eval(kwargs["expression"]).class, result |-> NoResult]
  ELSE [raises |-> FALSE, exception |-> "",
        result |-> CASE tool_name.str = "calculator" -> CalculatorExecute(kwargs["expression"])
                     [] tool_name.str = "web_search" -> WebSearchExecute(kwargs["query"])
                     [] OTHER -> KnowledgeBaseExecute(kwargs["query"], retrieve_raises)]

\* json.dumps(tool_result.output)
json_dumps(output) ==
  IF output.is_none THEN <<"null">> ELSE <<"{", output.kind, ": ", output.text, "}">>

\* dataclasses.asdict raises TypeError unless its argument is an instance of
\* a dataclass.  Message and ExecutionTrace are dataclasses (agent.py:25,34);
\* ToolResult is a pydantic BaseModel (tools.py:10).
Dataclasses == {"Message", "ExecutionTrace"}
asdict_raises(class) == class \notin Dataclasses

-----------------------------------------------------------------------------
(* The agent: src/src/agent/agent.py *)

\* An Optional[str]: None, or a text.  The empty text is false like None.
None == <<>>
Some(text) == <<text>>
Truthy(opt) == opt # None /\ opt[1] # <<>>

Message(role, content, tool_calls) ==
  [role |-> role, content |-> content, tool_calls |-> tool_calls]

\* ExecutionTrace(query=query); execution_time is 0.0 until the run writes the
\* elapsed wall-clock time into it.
ExecutionTrace(query) ==
  [query |-> query, steps |-> <<>>, tool_calls |-> <<>>, messages |-> <<>>,
   total_tokens |-> 0, execution_time |-> "0.0", status |-> "pending"]

\* The slot of a trace object that no call has created yet.
NoTrace == [ExecutionTrace("") EXCEPT !.status = "unallocated"]

AgentName == "GenAI Agent"

\* AIAgent._build_system_prompt
_build_system_prompt(name, registry) ==
  <<"You are a helpful AI assistant called ", name,
    ".\nYou have access to the following tools:\n\n">>
    \o get_tool_descriptions(registry)
    \o <<"\n\nWhen you need to use a tool, respond with a JSON object like this:\n",
         "{\"tool\": \"tool_name\", \"args\": {\"arg1\": \"value1\", \"arg2\": \"value2\"}}",
         "\n\nAlways be helpful, accurate, and honest. If you don't know something, say so.">>

\* msg.role.upper()
Upper(role) ==
  CASE role = "user" -> "USER" [] role = "assistant" -> "ASSISTANT" [] OTHER -> "SYSTEM"

RECURSIVE FormatMessages(_)
FormatMessages(history) ==
  IF history = <<>> THEN <<>>
  ELSE <<Upper(history[1].role), ": ">> \o history[1].content \o <<"\n">>
         \o FormatMessages(Tail(history))

\* AIAgent._format_conversation_history
_format_conversation_history(prompt, history) ==
  prompt \o <<"\n\n">> \o FormatMessages(history) \o <<"ASSISTANT: ">>

FailedResponse == <<"Failed to generate response">>

\* The tool branch taken on the test of line 159 alone, the check of the
\* parsed call (line 166) left out.
Branch_unguarded(response) ==
  IF _should_use_tool(response) THEN "tool" ELSE "final"

\* The branch execute_query takes on a response (lines 159 and 166): the
\* tool branch when the test holds and the parsed call is true, else the
\* final-answer branch.
Branch(response) ==
  IF _should_use_tool(response) /\ DictTruthy(_parse_tool_call(response))
    THEN "tool" ELSE "final"

VARIABLES
  max_iterations,        \* self.max_iterations
  tools,                 \* self.tool_registry.tools, in insertion order
  system_prompt,         \* self.system_prompt
  registered,            \* log: the tools passed to register, in the order of the calls
  state,                 \* self.state
  conversation_history,  \* self.conversation_history
  current_trace,         \* self.current_trace: the call that created the object, or "None"
  traces,                \* the ExecutionTrace object created by each call
  pc,                    \* where each call of execute_query stands
  query,                 \* the argument query of each call
  iteration,             \* local iteration
  final_response,        \* local final_response
  messages_str,          \* local messages_str
  response_text,         \* local response_text
  tool_call,             \* local tool_call
  tool_result,           \* local tool_result
  ret,                   \* the dict a call returned
  exc,                   \* the exception that left a call, and where it was raised
  prompts,               \* log: the prompts a call passed to llm.invoke
  responses,             \* log: the responses llm.invoke returned to a call
  own,                   \* log: the messages a call appended to the conversation
  own_calls,             \* log: the tool-call records a call appended to a trace
  tool_runs,             \* log: how often a call entered execute_tool
  state_log,             \* log: the values a call assigned to self.state, in order
  chunk_size,            \* DocumentChunker.chunk_size
  chunk_overlap,         \* DocumentChunker.chunk_overlap
  text,                  \* the argument text of the chunk_text call
  metadata,              \* the argument metadata of the chunk_text call
  chunk_list,            \* the list the chunk_text call returned
  chunker_pc,            \* "constructed", or "returned" once chunk_text has returned
  chroma,                \* what the installed Chroma does with an id it already holds
  collection,            \* VectorDatabase.collection: the stored rows, in insertion order
  added,                 \* log: passages handed to add_documents with matching embeddings
  db_exc,                \* the exception that left the last add_documents call, or ""
  top_k,                 \* the argument top_k of the last retrieve call
  results,               \* the list the last retrieve call returned
  search_pc,             \* "idle", or how the last retrieve call ended: "returned", "raised"
  direct_call,           \* the arguments of the last execute_tool call made on the registry itself
  direct_done,           \* what that call returned, or the exception that left it
  direct_pc              \* "idle", or how that call ended: "returned", "raised"

locals == <<query, iteration, final_response, messages_str, response_text,
            tool_call, tool_result>>
logs == <<prompts, responses, own, own_calls, tool_runs>>
agent == <<state, state_log, conversation_history, current_trace, traces>>
config == <<max_iterations, tools, system_prompt, registered>>
chunker == <<chunk_size, chunk_overlap, text, metadata, chunk_list, chunker_pc>>
vector_db == <<chroma, collection, added, db_exc, top_k, results, search_pc>>
rag == <<chunker, vector_db>>
direct == <<direct_call, direct_done, direct_pc>>
vars == <<config, agent, pc, locals, ret, exc, logs, rag, direct>>

NoReturn ==
  [query |-> "", response |-> <<>>, trace |-> NoTrace, iterations |-> 0, success |-> FALSE]
NoException == [type |-> "", at |-> ""]

\* AIAgent.__init__ with a ToolRegistry built with or without a RAG pipeline
AgentInit ==
  /\ max_iterations \in 0..MaxBudget
  /\ \E rag_pipeline \in BOOLEAN :
       /\ tools = ToolRegistry(rag_pipeline)
       /\ registered = DefaultTools(rag_pipeline)
       /\ system_prompt = _build_system_prompt(AgentName, ToolRegistry(rag_pipeline))
  /\ state = "idle"
  /\ conversation_history = <<>>
  /\ current_trace = "None"
  /\ traces = [c \in Calls |-> NoTrace]
  /\ pc = [c \in Calls |-> "idle"]
  /\ query = [c \in Calls |-> ""]
  /\ iteration = [c \in Calls |-> 0]
  /\ final_response = [c \in Calls |-> None]
  /\ messages_str = [c \in Calls |-> <<>>]
  /\ response_text = [c \in Calls |-> <<>>]
  /\ tool_call = [c \in Calls |-> NoDict]
  /\ tool_result = [c \in Calls |-> NoResult]
  /\ ret = [c \in Calls |-> NoReturn]
  /\ exc = [c \in Calls |-> NoException]
  /\ prompts = [c \in Calls |-> <<>>]
  /\ responses = [c \in Calls |-> <<>>]
  /\ own = [c \in Calls |-> <<>>]
  /\ own_calls = [c \in Calls |-> <<>>]
  /\ tool_runs = [c \in Calls |-> 0]
  /\ state_log = [c \in Calls |-> <<>>]

\* DocumentChunker() with its default arguments, chunk_text not yet called
ChunkerIdle ==
  /\ chunk_size = 1024
  /\ chunk_overlap = 200
  /\ text = <<>>
  /\ metadata = "None"
  /\ chunk_list = <<>>
  /\ chunker_pc = "constructed"

\* VectorDatabase() on a new, empty collection
VectorIdle ==
  /\ chroma = "raise"
  /\ collection = <<>>
  /\ added = 0
  /\ db_exc = ""
  /\ top_k = 5
  /\ results = <<>>
  /\ search_pc = "idle"

\* No execute_tool call has been made on the registry itself
DirectIdle ==
  /\ direct_call = [tool |-> "", kwargs |-> NoKwargs, retrieve_raises |-> FALSE]
  /\ direct_done = [raises |-> FALSE, exception |-> "", result |-> NoResult]
  /\ direct_pc = "idle"

\* An agent, with a chunker and a vector database that are not used
Init == AgentInit /\ ChunkerIdle /\ VectorIdle /\ DirectIdle

\* A call is inside execute_query
Active(c) == pc[c] \notin {"idle", "returned", "raised"}

\* execute_query entered with the conversation of the agent kept
Begin_keep(c, q) ==
  LET user_msg == Message("user", <<q>>, <<>>)
  IN /\ pc[c] = "idle"
     /\ state' = "running"
     /\ state_log' = [state_log EXCEPT ![c] = <<"running">>]
     /\ traces' = [traces EXCEPT ![c] = [ExecutionTrace(q) EXCEPT !.messages = <<user_msg>>]]
     /\ current_trace' = c
     /\ conversation_history' = Append(conversation_history, user_msg)
     /\ query' = [query EXCEPT ![c] = q]
     /\ final_response' = [final_response EXCEPT ![c] = None]
     /\ iteration' = [iteration EXCEPT ![c] = 0]
     /\ own' = [own EXCEPT ![c] = <<user_msg>>]
     /\ own_calls' = [own_calls EXCEPT ![c] = <<>>]
     /\ pc' = [pc EXCEPT ![c] = "loop"]
     /\ UNCHANGED <<rag, direct, config, messages_str, response_text, tool_call, tool_result,
                    ret, exc, prompts, responses, tool_runs>>

\* execute_query, lines 127-137
Begin(c, q) ==
  LET user_msg == Message("user", <<q>>, <<>>)
  IN /\ pc[c] = "idle"
     /\ state' = "running"
     /\ state_log' = [state_log EXCEPT ![c] = <<"running">>]
     /\ traces' = [traces EXCEPT ![c] = [ExecutionTrace(q) EXCEPT !.messages = <<user_msg>>]]
     /\ current_trace' = c
     /\ conversation_history' = <<user_msg>>
     /\ query' = [query EXCEPT ![c] = q]
     /\ final_response' = [final_response EXCEPT ![c] = None]
     /\ iteration' = [iteration EXCEPT ![c] = 0]
     /\ own' = [own EXCEPT ![c] = <<user_msg>>]
     /\ own_calls' = [own_calls EXCEPT ![c] = <<>>]
     /\ pc' = [pc EXCEPT ![c] = "loop"]
     /\ UNCHANGED <<rag, direct, config, messages_str, response_text, tool_call, tool_result,
                    ret, exc, prompts, responses, tool_runs>>

\* execute_query called while no other call is inside it
Start(c, q) ==
  /\ \A d \in Calls : ~Active(d)
  /\ Begin(c, q)

\* A call waits for llm.invoke or for execute_tool to come back
Suspended(c) == pc[c] \in {"generating", "tool_executing"}

\* execute_query called while every call that is inside it is suspended
StartConcurrent(c, q) ==
  /\ \A d \in Calls : Active(d) => Suspended(d)
  /\ Begin(c, q)

\* lines 139-148: the loop test holds, a new iteration formats the prompt
Think(c) ==
  /\ pc[c] = "loop"
  /\ iteration[c] < max_iterations
  /\ iteration' = [iteration EXCEPT ![c] = @ + 1]
  /\ state' = "thinking"
  /\ state_log' = [state_log EXCEPT ![c] = Append(@, "thinking")]
  /\ messages_str' = [messages_str EXCEPT ![c] =
                        _format_conversation_history(system_prompt, conversation_history)]
  /\ pc' = [pc EXCEPT ![c] = "thinking"]
  /\ UNCHANGED <<rag, direct, config, conversation_history, current_trace, traces, query,
                 final_response, response_text, tool_call, tool_result, ret, exc, logs>>

\* lines 151-152: llm.invoke(messages_str) is called and the call suspends
Invoke(c) ==
  /\ pc[c] = "thinking"
  /\ state' = "generating"
  /\ state_log' = [state_log EXCEPT ![c] = Append(@, "generating")]
  /\ prompts' = [prompts EXCEPT ![c] = Append(@, messages_str[c])]
  /\ pc' = [pc EXCEPT ![c] = "generating"]
  /\ UNCHANGED <<rag, direct, config, conversation_history, current_trace, traces, locals, ret, exc,
                 responses, own, own_calls, tool_runs>>

\* An exception leaves execute_query; nothing in it catches one.
Raise(c, type, at) ==
  /\ pc' = [pc EXCEPT ![c] = "raised"]
  /\ exc' = [exc EXCEPT ![c] = [type |-> type, at |-> at]]

\* llm.invoke raises
LLMRaise(c) ==
  /\ pc[c] = "generating"
  /\ Raise(c, "GenerationError", "llm.invoke")
  /\ UNCHANGED <<rag, direct, direct, config, agent, locals, ret, logs>>

\* llm.invoke returns r; lines 153-171 up to the call of execute_tool, or
\* lines 196-201 on a final answer
LLMReturn(c, r) ==
  LET parsed == _parse_tool_call(r)
      assistant_msg == Message("assistant", r, <<>>)
  IN /\ pc[c] = "generating"
     /\ response_text' = [response_text EXCEPT ![c] = r]
     /\ responses' = [responses EXCEPT ![c] = Append(@, r)]
     /\ IF Branch(r) = "tool"
          THEN /\ state' = "tool_calling"
               /\ state_log' = [state_log EXCEPT ![c] = Append(@, "tool_calling")]
               /\ tool_call' = [tool_call EXCEPT ![c] = parsed]
               /\ IF parsed.is_none
                    THEN Raise(c, "TypeError", "tool_call[tool]")
                  ELSE IF "tool" \notin parsed.keys
                    THEN Raise(c, "KeyError", "tool_call[tool]")
                  ELSE IF ~parsed.args.mapping
                    THEN Raise(c, "TypeError", "**args")
                  ELSE pc' = [pc EXCEPT ![c] = "tool_executing"] /\ exc' = exc
               /\ UNCHANGED <<conversation_history, final_response, own>>
          ELSE /\ state' = "completed"
               /\ state_log' = [state_log EXCEPT ![c] =
                                   IF _should_use_tool(r)
                                     THEN @ \o <<"tool_calling", "completed">>
                                     ELSE Append(@, "completed")]
               /\ tool_call' = [tool_call EXCEPT ![c] =
                                  IF _should_use_tool(r) THEN parsed ELSE @]
               /\ conversation_history' = Append(conversation_history, assistant_msg)
               /\ own' = [own EXCEPT ![c] = Append(@, assistant_msg)]
               /\ final_response' = [final_response EXCEPT ![c] = Some(r)]
               /\ pc' = [pc EXCEPT ![c] = "break"]
               /\ exc' = exc
     /\ UNCHANGED <<rag, direct, config, current_trace, traces, query, iteration, messages_str,
                    tool_result, ret, prompts, own_calls, tool_runs>>

\* execute_tool runs and comes back; lines 174-194
ToolReturn(c, retrieve_raises) ==
  LET call == tool_call[c]
      done == execute_tool(tools, call.tool, call.args.kwargs, retrieve_raises)
      tool_call_record == [iteration |-> iteration[c], tool |-> call.tool.str,
                           args |-> call.args.kwargs, result |-> done.result]
      assistant_msg == Message("assistant", response_text[c], <<call>>)
      tool_msg == Message("system",
                          <<"Tool executed: ", call.tool.str, "\nResult: ">>
                            \o json_dumps(done.result.output),
                          <<>>)
  IN /\ pc[c] = "tool_executing"
     /\ tool_runs' = [tool_runs EXCEPT ![c] = @ + 1]
     /\ IF done.raises
          THEN /\ Raise(c, done.exception, "execute_tool")
               /\ UNCHANGED <<tool_result, traces, conversation_history, own, own_calls>>
        ELSE IF asdict_raises("ToolResult")
          THEN /\ Raise(c, "TypeError", "asdict(tool_result)")
               /\ tool_result' = [tool_result EXCEPT ![c] = done.result]
               /\ UNCHANGED <<traces, conversation_history, own, own_calls>>
        ELSE /\ tool_result' = [tool_result EXCEPT ![c] = done.result]
             /\ traces' = [traces EXCEPT ![current_trace].tool_calls =
                             Append(@, tool_call_record)]
             /\ conversation_history' =
                  conversation_history \o <<assistant_msg, tool_msg>>
             /\ own' = [own EXCEPT ![c] = @ \o <<assistant_msg, tool_msg>>]
             /\ own_calls' = [own_calls EXCEPT ![c] = Append(@, tool_call_record)]
             /\ pc' = [pc EXCEPT ![c] = "loop"]
             /\ exc' = exc
     /\ UNCHANGED <<rag, direct, config, state, state_log, current_trace, query, iteration, final_response,
                    messages_str, response_text, tool_call, ret, prompts, responses>>

\* lines 203-205, after the break or when the loop test fails: the status
\* of the trace is set
Finish(c) ==
  LET status == IF Truthy(final_response[c]) THEN "completed" ELSE "error"
  IN /\ \/ pc[c] = "break"
        \/ pc[c] = "loop" /\ iteration[c] >= max_iterations
     /\ traces' = [traces EXCEPT ![current_trace].status = status]
     /\ pc' = [pc EXCEPT ![c] = "finishing"]
     /\ UNCHANGED <<rag, direct, config, state, state_log, conversation_history, current_trace, locals, ret,
                    exc, logs>>

\* lines 206-214: the elapsed time is written to the trace and the dict is
\* returned
Output(c) ==
  LET after == [traces EXCEPT ![current_trace].execution_time = "elapsed"]
  IN /\ pc[c] = "finishing"
     /\ traces' = after
     /\ ret' = [ret EXCEPT ![c] =
                  [query |-> query[c],
                   response |-> IF Truthy(final_response[c])
                                  THEN final_response[c][1] ELSE FailedResponse,
                   trace |-> after[current_trace],
                   iterations |-> iteration[c],
                   success |-> final_response[c] # None]]
     /\ pc' = [pc EXCEPT ![c] = "returned"]
     /\ UNCHANGED <<rag, direct, config, state, state_log, conversation_history, current_trace, locals, exc, logs>>

Next ==
  \E c \in Calls :
    \/ \E q \in Queries : Start(c, q)
    \/ Think(c)
    \/ Invoke(c)
    \/ LLMRaise(c)
    \/ \E r \in Responses : LLMReturn(c, r)
    \/ \E retrieve_raises \in BOOLEAN : ToolReturn(c, retrieve_raises)
    \/ Finish(c)
    \/ Output(c)

\* Calls of execute_query one after the other
Spec == Init /\ [][Next]_vars

NextConcurrent ==
  \E c \in Calls :
    \/ \E q \in Queries : StartConcurrent(c, q)
    \/ Think(c)
    \/ Invoke(c)
    \/ LLMRaise(c)
    \/ \E r \in Responses : LLMReturn(c, r)
    \/ \E retrieve_raises \in BOOLEAN : ToolReturn(c, retrieve_raises)
    \/ Finish(c)
    \/ Output(c)

\* Calls of execute_query that may start while another one is suspended
SpecConcurrent == Init /\ [][NextConcurrent]_vars

\* The tools registered on the agent's registry after construction: a second
\* CalculatorTool(), and a tool of the caller under two descriptions
LookupTool == [name |-> "lookup", description |-> "Look up a record"]
LookupToolV2 == [name |-> "lookup", description |-> "Look up a record by key"]
Registrable == {CalculatorTool, LookupTool, LookupToolV2}

\* agent.tool_registry.register(tool), called while no query is running
Register(tool) ==
  /\ \A c \in Calls : ~Active(c)
  /\ Len(registered) < Len(DefaultTools(TRUE)) + MaxRegister
  /\ tools' = register(tools, tool)
  /\ registered' = Append(registered, tool)
  /\ UNCHANGED <<max_iterations, system_prompt, agent, pc, locals, ret, exc, logs, rag,
                 direct>>

NextRegistry ==
  \/ \E tool \in Registrable : Register(tool)
  \/ \E q \in Queries : Start("A", q)
  \/ Think("A")
  \/ Invoke("A")
  \/ LLMRaise("A")
  \/ \E r \in Responses : LLMReturn("A", r)
  \/ \E retrieve_raises \in BOOLEAN : ToolReturn("A", retrieve_raises)
  \/ Finish("A")
  \/ Output("A")

\* Registrations on the agent's registry before and after one execute_query
SpecRegistry == Init /\ [][NextRegistry]_vars

\* The keyword arguments of the execute_tool calls made on the registry itself
DirectKwargs ==
  {[k \in {"expression"} |-> e] : e \in Expressions}
    \cup {[k \in {"query"} |-> "rag"], NoKwargs}

\* The tool names of those calls
DirectNames == {"calculator", "web_search", "knowledge_base_search", "does-not-exist"}

\* tool_registry.execute_tool(name, **kwargs)
ExecuteTool(name, kwargs, retrieve_raises) ==
  LET done == execute_tool(tools, [hashable |-> TRUE, str |-> name], kwargs, retrieve_raises)
  IN /\ direct_call' = [tool |-> name, kwargs |-> kwargs, retrieve_raises |-> retrieve_raises]
     /\ direct_done' = done
     /\ direct_pc' = IF done.raises THEN "raised" ELSE "returned"
     /\ UNCHANGED <<config, agent, pc, locals, ret, exc, logs, rag>>

NextTools ==
  \/ \E tool \in Registrable : Register(tool)
  \/ \E name \in DirectNames, kwargs \in DirectKwargs, retrieve_raises \in BOOLEAN :
       ExecuteTool(name, kwargs, retrieve_raises)

\* register and execute_tool called on the registry itself
SpecTools == Init /\ [][NextTools]_vars

-----------------------------------------------------------------------------
(* Document chunking: src/src/rag/document_processor.py *)
(* A text is a sequence of characters.                  *)

Letters == {"a", "b"}
Whitespace == {" ", "\n"}
Special == {"@"}
Alphabet == Letters \cup Whitespace \cup Special

\* Every text of at most MaxTextLen characters
CharTexts == UNION {[1..n -> Alphabet] : n \in 0..MaxTextLen}

\* Every text of 1..MaxWords one-letter words separated by single spaces
WordTexts ==
  UNION {{[i \in 1..(2 * n - 1) |-> IF i % 2 = 1 THEN w[(i + 1) \div 2] ELSE " "] :
            w \in [1..n -> Letters]} : n \in 1..MaxWords}

Texts == CharTexts \cup WordTexts

\* The values of the argument metadata of chunk_text
Metadatas == {"None", "{}", "{source}"}

\* re.sub(r'\s+', ' ', text)
RECURSIVE collapse(_)
collapse(t) ==
  IF t = <<>> THEN <<>>
  ELSE IF t[1] \in Whitespace
         THEN IF Len(t) > 1 /\ t[2] \in Whitespace
                THEN collapse(Tail(t))
                ELSE <<" ">> \o collapse(Tail(t))
         ELSE <<t[1]>> \o collapse(Tail(t))

\* [\w\s\.\,\!\?\-\:\;]
Kept(ch) == ch \notin Special

\* re.sub(r'[^\w\s\.\,\!\?\-\:\;]', '', text)
remove_special(t) == SelectSeq(t, Kept)

RECURSIVE lstrip(_)
lstrip(t) == IF t # <<>> /\ t[1] \in Whitespace THEN lstrip(Tail(t)) ELSE t

RECURSIVE rstrip(_)
rstrip(t) ==
  IF t # <<>> /\ t[Len(t)] \in Whitespace THEN rstrip(SubSeq(t, 1, Len(t) - 1)) ELSE t

\* str.strip()
strip(t) == rstrip(lstrip(t))

\* DocumentChunker._clean_text
_clean_text(t) == strip(remove_special(collapse(t)))

\* text.split('\n\n'), para being the paragraph read so far
RECURSIVE split_paragraphs(_, _)
split_paragraphs(t, para) ==
  IF t = <<>> THEN <<para>>
  ELSE IF Len(t) >= 2 /\ t[1] = "\n" /\ t[2] = "\n"
         THEN <<para>> \o split_paragraphs(SubSeq(t, 3, Len(t)), <<>>)
         ELSE split_paragraphs(Tail(t), Append(para, t[1]))

\* The loop of _semantic_split and the statement after it
RECURSIVE semantic_loop(_, _, _, _)
semantic_loop(paragraphs, chunks, current_chunk, size) ==
  LET flushed == IF current_chunk # <<>>
                   THEN Append(chunks, strip(current_chunk)) ELSE chunks
  IN IF paragraphs = <<>> THEN flushed
     ELSE LET para == Head(paragraphs)
          IN IF Len(current_chunk) + Len(para) < size
               THEN semantic_loop(Tail(paragraphs), chunks,
                                  current_chunk \o <<" ">> \o para, size)
               ELSE semantic_loop(Tail(paragraphs), flushed, para, size)

\* DocumentChunker._semantic_split
_semantic_split(t, size) == semantic_loop(split_paragraphs(t, <<>>), <<>>, <<>>, size)

\* str.split(), word being the word read so far
RECURSIVE split_words(_, _)
split_words(t, word) ==
  LET done == IF word # <<>> THEN <<word>> ELSE <<>>
  IN IF t = <<>> THEN done
     ELSE IF t[1] \in Whitespace
            THEN done \o split_words(Tail(t), <<>>)
            ELSE split_words(Tail(t), Append(word, t[1]))

split(t) == split_words(t, <<>>)

\* ' '.join(words)
RECURSIVE space_join(_)
space_join(words) ==
  IF words = <<>> THEN <<>>
  ELSE IF Len(words) = 1 THEN words[1]
  ELSE words[1] \o <<" ">> \o space_join(Tail(words))

\* The first n words of current
FirstN(current, n) ==
  IF n = 0 \/ n >= Len(current) THEN current ELSE SubSeq(current, 1, n)

\* current[-n:] for n >= 0: the whole list when n is 0
LastN(current, n) ==
  IF n = 0 \/ n >= Len(current)
    THEN current
    ELSE SubSeq(current, Len(current) - n + 1, Len(current))

\* The loop over the words of one chunk in _size_split and the statement
\* after it; the windows are kept as lists of words
RECURSIVE sub_chunks(_, _, _, _, _)
sub_chunks(words, current, done, size, overlap) ==
  IF words = <<>>
    THEN IF current # <<>> THEN Append(done, current) ELSE done
    ELSE LET cur == Append(current, Head(words))
         IN IF Len(cur) >= size
              THEN sub_chunks(Tail(words), LastN(cur, overlap), Append(done, cur),
                              size, overlap)
              ELSE sub_chunks(Tail(words), cur, done, size, overlap)

\* DocumentChunker._size_split
RECURSIVE _size_split(_, _, _)
_size_split(chunks, size, overlap) ==
  IF chunks = <<>> THEN <<>>
  ELSE LET chunk == Head(chunks)
           words == split(chunk)
           windows == sub_chunks(words, <<>>, <<>>, size, overlap)
       IN (IF Len(words) <= size
             THEN <<chunk>>
             ELSE [i \in 1..Len(windows) |-> space_join(windows[i])])
          \o _size_split(Tail(chunks), size, overlap)

\* DocumentChunker.chunk_text
chunk_text(t, md, size, overlap) ==
  LET chunks == _size_split(_semantic_split(_clean_text(t), size), size, overlap)
  IN [i \in 1..Len(chunks) |->
        [content |-> chunks[i],
         chunk_id |-> i - 1,
         metadata |-> IF md \in {"None", "{}"} THEN "{}" ELSE md,
         length |-> Len(split(chunks[i]))]]

\* DocumentChunker(chunk_size, chunk_overlap), and the arguments of the
\* chunk_text call made on it
ChunkerInit ==
  /\ chunk_size \in 1..MaxChunkSize
  /\ chunk_overlap \in 0..MaxChunkSize
  /\ text \in Texts
  /\ metadata \in Metadatas
  /\ chunk_list = <<>>
  /\ chunker_pc = "constructed"

\* chunker.chunk_text(text, metadata)
ChunkText ==
  /\ chunker_pc = "constructed"
  /\ chunk_list' = chunk_text(text, metadata, chunk_size, chunk_overlap)
  /\ chunker_pc' = "returned"
  /\ UNCHANGED <<chunk_size, chunk_overlap, text, metadata, vector_db, direct, config, agent,
                 pc, locals, ret, exc, logs>>

\* An agent that is constructed and never queried
AgentIdle ==
  /\ AgentInit
  /\ max_iterations = 0
  /\ tools = ToolRegistry(FALSE)

InitChunker == AgentIdle /\ ChunkerInit /\ VectorIdle /\ DirectIdle

NextChunker == ChunkText

\* chunk_text on every configuration and text of the bounded sets
SpecChunker == InitChunker /\ [][NextChunker]_vars

-----------------------------------------------------------------------------
(* Vector database: src/src/rag/embeddings.py *)

Contents == {"Document 1", "Document 2"}

\* The lists of 1..MaxDocs passages given to add_documents
Documents == UNION {[1..n -> Contents] : n \in 1..MaxDocs}

\* f"doc_{i}"
DocId(i) == <<"doc_", i>>

\* collection.count()
count == Len(collection)

\* add_documents without the comparison of the two lengths
add_documents_unchecked(documents, n) ==
  LET ids == [i \in 1..Len(documents) |-> DocId(i - 1)]
      rows == [i \in 1..Len(documents) |-> [id |-> ids[i], document |-> documents[i]]]
      held == \E i \in 1..Len(ids), j \in 1..Len(collection) : collection[j].id = ids[i]
  IN /\ added + Len(documents) <= MaxAdded
     /\ added' = added + Len(documents)
     /\ IF held /\ chroma = "raise"
          THEN /\ db_exc' = "IDAlreadyExistsError"
               /\ UNCHANGED collection
          ELSE /\ db_exc' = ""
               /\ collection' = collection \o rows
     /\ UNCHANGED <<chroma, top_k, results, search_pc, chunker, direct, config, agent, pc, locals,
                    ret, exc, logs>>

\* VectorDatabase.add_documents(documents, embeddings), embeddings holding n rows
add_documents(documents, n) ==
  LET ids == [i \in 1..Len(documents) |-> DocId(i - 1)]
      rows == [i \in 1..Len(documents) |-> [id |-> ids[i], document |-> documents[i]]]
      held == \E i \in 1..Len(ids), j \in 1..Len(collection) : collection[j].id = ids[i]
  IN /\ added + Len(documents) <= MaxAdded
     /\ IF Len(documents) # n
          THEN /\ db_exc' = "ValueError"
               /\ UNCHANGED <<collection, added>>
          ELSE /\ added' = added + Len(documents)
               /\ IF held /\ chroma = "raise"
                    THEN /\ db_exc' = "IDAlreadyExistsError"
                         /\ UNCHANGED collection
                    ELSE /\ db_exc' = ""
                         /\ collection' = collection \o rows
     /\ UNCHANGED <<chroma, top_k, results, search_pc, chunker, direct, config, agent, pc, locals,
                    ret, exc, logs>>

\* VectorDatabase() on a new collection; the installed Chroma either raises
\* on an id it already holds or stores a second row under it
VectorInit ==
  /\ chroma \in {"raise", "duplicate"}
  /\ collection = <<>>
  /\ added = 0
  /\ db_exc = ""
  /\ top_k = 5
  /\ results = <<>>
  /\ search_pc = "idle"

InitVectorDB == AgentIdle /\ ChunkerIdle /\ VectorInit /\ DirectIdle

\* What collection.query(n_results = k) can do on the stored rows: return k
\* of them, or raise.  Chroma is not part of the repository; whether it
\* serves a k that is not positive, or larger than the number of rows, with
\* a shorter list or with an error depends on the installed version.
QueryOutcomes(k) ==
  LET n == Len(collection)
      served == IF k <= 0 THEN 0 ELSE IF k <= n THEN k ELSE n
      picks == {idx \in [1..served -> 1..n] :
                  \A i, j \in 1..served : i # j => idx[i] # idx[j]}
  IN {[raises |-> FALSE, documents |-> [i \in 1..served |-> collection[idx[i]].document]] :
        idx \in picks}
     \cup (IF k <= 0 \/ k > n THEN {[raises |-> TRUE, documents |-> <<>>]} ELSE {})

\* VectorDatabase.search on the outcome of collection.query
search(outcome) ==
  [i \in 1..Len(outcome.documents) |-> [content |-> outcome.documents[i]]]

\* RAGPipeline.retrieve(query, k): embed the query, search the database
retrieve(k) ==
  \E outcome \in QueryOutcomes(k) :
    /\ top_k' = k
    /\ IF outcome.raises
         THEN /\ search_pc' = "raised"
              /\ UNCHANGED results
         ELSE /\ search_pc' = "returned"
              /\ results' = search(outcome)
    /\ UNCHANGED <<chroma, collection, added, db_exc, chunker, direct, config, agent, pc, locals,
                   ret, exc, logs>>

NextVectorDB ==
  \/ \E documents \in Documents, n \in 1..MaxDocs : add_documents(documents, n)
  \/ \E k \in -1..MaxTopK : retrieve(k)

\* One database, add_documents and retrieve called any number of times
SpecVectorDB == InitVectorDB /\ [][NextVectorDB]_vars

-----------------------------------------------------------------------------
(* Properties *)

\* A response that is a parseable tool call: it passes the test and parses
\* to an object holding the key "tool".
ParseableToolCall(r) ==
  /\ ~_parse_tool_call(r).is_none
  /\ "tool" \in _parse_tool_call(r).keys

\* A response that passes the test and whose slice does not parse.
ParseFails(r) ==
  /\ _should_use_tool(r)
  /\ json_loads(SubSeq(r, find_open(r), rfind_close(r))).raises

\* A response that passes the test and parses to an object without "tool".
Keyless(r) ==
  /\ ~_parse_tool_call(r).is_none
  /\ "tool" \notin _parse_tool_call(r).keys

\* The dict execute_tool receives for a parsed call
Executed(r, retrieve_raises) ==
  execute_tool(tools, _parse_tool_call(r).tool, _parse_tool_call(r).args.kwargs,
               retrieve_raises)

SystemMessages(history) == {i \in 1..Len(history) : history[i].role = "system"}

\* C1: when every generation response of a run is a parseable tool call
\* (and max_iterations >= 1), execute_query is left by no exception of its
\* own and returns after exactly max_iterations generation calls with
\* success = false, response "Failed to generate response" and
\* iterations = max_iterations.
C1_BudgetExhaustion ==
  \A c \in Calls :
    (/\ max_iterations >= 1
     /\ responses[c] # <<>>
     /\ \A i \in 1..Len(responses[c]) : ParseableToolCall(responses[c][i]))
    => /\ pc[c] = "raised" => exc[c].at = "llm.invoke"
       /\ pc[c] = "returned" =>
            /\ Len(prompts[c]) = max_iterations
            /\ ret[c].success = FALSE
            /\ ret[c].response = FailedResponse
            /\ ret[c].iterations = max_iterations

\* C2: when two calls of execute_query on one agent interleave, each prompt
\* a call sends is made of the messages of that call only, and the trace a
\* call returns carries that call's query and that call's tool-call records.
C2_RunsIsolated ==
  \A c \in Calls :
    /\ \A i \in 1..Len(prompts[c]) :
         \E k \in 0..Len(own[c]) :
           prompts[c][i] = _format_conversation_history(system_prompt, SubSeq(own[c], 1, k))
    /\ pc[c] = "returned" =>
         /\ ret[c].trace.query = query[c]
         /\ ret[c].trace.tool_calls = own_calls[c]

\* C3: no dispatched tool call ends execute_query with an exception, whatever
\* the tool name, the value of args and the tool's result; each executed
\* call has left one system message with its result in the conversation.
C3_ToolCallNeverAborts ==
  \A c \in Calls :
    /\ exc[c].at \notin {"**args", "execute_tool", "asdict(tool_result)"}
    /\ Cardinality(SystemMessages(own[c])) = tool_runs[c]

\* C4: ToolRegistry.execute_tool returns a ToolResult and never raises, for
\* every tool name and every set of keyword arguments it is called with.
C4_ExecuteToolNeverRaises ==
  \A c \in Calls :
    pc[c] = "tool_executing" =>
      \A retrieve_raises \in BOOLEAN :
        ~execute_tool(tools, tool_call[c].tool, tool_call[c].args.kwargs,
                      retrieve_raises).raises

\* C5: a response that passes the test and parses to an object without the
\* key "tool" is handled like a parse failure: no exception leaves
\* execute_query, no tool is executed in that iteration and the response is
\* the final answer of the run.
C5_KeylessObjectIsFinalAnswer ==
  \A c \in Calls :
    Keyless(response_text[c]) =>
      /\ pc[c] \in {"break", "finishing", "returned"}
      /\ final_response[c] = Some(response_text[c])
      /\ tool_runs[c] = Len(responses[c]) - 1
      /\ pc[c] = "returned" =>
           ret[c].success /\ ret[c].response = response_text[c]

\* C6: when the generation capability raises during a run, the trace of that
\* run ends with status "error" and the agent is not left in state
\* GENERATING once no call is running.
C6_GenerationFailureCaptured ==
  \A c \in Calls :
    exc[c].at = "llm.invoke" =>
      /\ traces[c].status = "error"
      /\ (\A d \in Calls : ~Active(d)) => state # "generating"

\* C7: when the responses of a run are k parseable tool calls followed by a
\* response that is not a tool call, execute_query raises nothing and returns
\* iterations = k + 1, success = true, the last response as response and k
\* tool-call records in call order, record i carrying iteration i, the tool
\* name, the args and the result of the call.
C7_ToolCallsThenAnswer ==
  \A c \in Calls :
    LET n == Len(responses[c])
    IN (/\ n >= 1
        /\ Branch(responses[c][n]) = "final"
        /\ \A i \in 1..(n - 1) : ParseableToolCall(responses[c][i]))
       => /\ pc[c] # "raised"
          /\ pc[c] = "returned" =>
               /\ ret[c].iterations = n
               /\ ret[c].success = TRUE
               /\ ret[c].response = responses[c][n]
               /\ Len(ret[c].trace.tool_calls) = n - 1
               /\ \A i \in 1..(n - 1) :
                    LET rec == ret[c].trace.tool_calls[i]
                        call == _parse_tool_call(responses[c][i])
                    IN /\ rec.iteration = i
                       /\ rec.tool = call.tool.str
                       /\ rec.args = call.args.kwargs
                       /\ \E b \in BOOLEAN : rec.result = Executed(responses[c][i], b).result

\* C8: when a response passes the test but its slice from the first "{" to
\* the last "}" does not parse, no tool is executed and no tool call is
\* recorded in that iteration, and the run ends in the same iteration with
\* the response text as the final answer and success = true.
C8_ParseFailureIsFinalAnswer ==
  \A c \in Calls :
    ParseFails(response_text[c]) =>
      /\ pc[c] \in {"break", "finishing", "returned"}
      /\ final_response[c] = Some(response_text[c])
      /\ tool_runs[c] = Len(responses[c]) - 1
      /\ Len(own_calls[c]) = Len(responses[c]) - 1
      /\ iteration[c] = Len(responses[c])
      /\ pc[c] = "returned" =>
           /\ ret[c].success = TRUE
           /\ ret[c].response = response_text[c]
           /\ ret[c].iterations = Len(responses[c])
           /\ Len(ret[c].trace.tool_calls) = Len(responses[c]) - 1

\* A run whose first response was the truncated call  {"tool": "calc  has
\* returned after one iteration.
C8_Witness ==
  \E c \in Calls :
    /\ pc[c] = "returned"
    /\ responses[c] = <<(<<Open, ToolTruncated>>)>>
    /\ ParseFails(response_text[c])
    /\ ret[c].iterations = 1

\* C9: execute_query returns success = true exactly when some iteration
\* produced a non-tool response; then response is that text verbatim and
\* trace.status is "completed"; otherwise response is "Failed to generate
\* response" and trace.status is "error".
C9_SuccessIffFinalAnswer ==
  \A c \in Calls :
    pc[c] = "returned" =>
      LET n == Len(responses[c])
          answered == n >= 1 /\ Branch(responses[c][n]) = "final"
      IN /\ ret[c].success = answered
         /\ IF answered
              THEN /\ ret[c].response = responses[c][n]
                   /\ ret[c].trace.status = "completed"
              ELSE /\ ret[c].response = FailedResponse
                   /\ ret[c].trace.status = "error"

\* C10: when execute_query returns, the agent state is COMPLETED if the run
\* produced a final answer and ERROR if it did not.
C10_StateAtReturn ==
  [][\A c \in Calls :
       (pc[c] # "returned" /\ pc'[c] = "returned") =>
         state' = IF final_response'[c] # None THEN "completed" ELSE "error"]_vars

\* C11: when a run ends, trace.messages is the full message sequence of the
\* run (user message, assistant and system message of each executed tool
\* call, final assistant message): it equals the run's conversation history.
C11_TraceMessagesFull ==
  \A c \in Calls :
    pc[c] = "returned" => ret[c].trace.messages = own[c]

\* The number of tool executions of a call that have come back with a result
ToolsReturned(c) == tool_runs[c] - (IF exc[c].at = "execute_tool" THEN 1 ELSE 0)

\* C12: each executed tool call adds exactly one record to the trace, and
\* only once its execution has returned; it adds to the conversation an
\* assistant message carrying the parsed call, immediately followed by one
\* system message; an execution that does not return leaves no record.
C12_OneRecordPerToolCall ==
  \A c \in Calls :
    /\ Len(own_calls[c]) = ToolsReturned(c)
    /\ Cardinality(SystemMessages(own[c])) = ToolsReturned(c)
    /\ \A i \in SystemMessages(own[c]) :
         /\ i > 1
         /\ own[c][i - 1].role = "assistant"
         /\ own[c][i - 1].tool_calls # <<>>

\* C13: once the status of a trace is no longer "pending", no field of the
\* trace changes, and the trace a call returned is not altered afterwards.
C13_TraceFrozen ==
  [][\A c \in Calls :
       /\ traces[c].status \notin {"pending", "unallocated"} => traces'[c] = traces[c]
       /\ pc[c] = "returned" => ret'[c] = ret[c]]_vars

\* The parsed call of c names a tool that is not registered
UnknownTool(c) ==
  /\ tool_call[c].tool.hashable
  /\ ~\E i \in 1..Len(tools) : tools[i].name = tool_call[c].tool.str

\* C14: execute_tool with a name that is not registered returns a ToolResult
\* with success = false, output = null and a non-null error and raises
\* nothing; when the agent loop dispatches such a call, the call is recorded
\* in the trace and the run continues with the next iteration.
C14_UnknownToolRecorded ==
  \A c \in Calls :
    /\ (pc[c] = "tool_executing" /\ UnknownTool(c)) =>
         \A b \in BOOLEAN :
           LET done == execute_tool(tools, tool_call[c].tool, tool_call[c].args.kwargs, b)
           IN /\ ~done.raises
              /\ ~done.result.success
              /\ done.result.output.is_none
              /\ done.result.error # NoError
    /\ (UnknownTool(c) /\ tool_runs[c] >= 1 /\ tool_runs[c] = Len(responses[c])) =>
         /\ pc[c] # "raised"
         /\ Len(own_calls[c]) = tool_runs[c]
         /\ own_calls[c][Len(own_calls[c])].tool = tool_call[c].tool.str

\* "{" in response, "tool" in response
ContainsOpen(r) == \E i \in 1..Len(r) : r[i] \in {Open, ArgsSum, ArgsInvalid, ArgsQuery, ArgsEmpty}
ContainsTool(r) == \E i \in 1..Len(r) : r[i] \in ToolMembers \cup {ToolTruncated, ProseTool}

C16_PassageWithinSize ==
  (chunker_pc = "returned" /\ chunk_size >= 1 /\ chunk_overlap < chunk_size) =>
    \A i \in 1..Len(chunk_list) : Len(split(chunk_list[i].content)) <= chunk_size

\* C17: a chunker with chunk_overlap >= chunk_size is rejected as a
\* configuration error: chunk_text does not return a list of passages on it.
C17_OverlapRejected ==
  chunk_overlap >= chunk_size => chunker_pc # "returned"

\* C18: chunk_text of a text that normalises to the empty string returns an
\* empty list.
C18_EmptyTextNoPassage ==
  (chunker_pc = "returned" /\ _clean_text(text) = <<>>) => chunk_list = <<>>

\* The words of the text chunk_text was called with, after cleaning
Words == split(_clean_text(text))

\* The passages chunk_text returned, as lists of words
Windows == [i \in 1..Len(chunk_list) |-> split(chunk_list[i].content)]

\* chunk_text has size-split a chunk of more than chunk_size words with
\* 0 < chunk_overlap < chunk_size
SizeSplit ==
  /\ chunker_pc = "returned"
  /\ 0 < chunk_overlap /\ chunk_overlap < chunk_size
  /\ Len(Words) > chunk_size

RECURSIVE Concat(_)
Concat(lists) == IF lists = <<>> THEN <<>> ELSE Head(lists) \o Concat(Tail(lists))

\* C19: when a chunk of more than chunk_size words is size-split with
\* 0 < chunk_overlap < chunk_size, every window after the first begins with
\* the last chunk_overlap words of the window before it, every window but
\* the last has chunk_size words, and the windows without their leading
\* overlaps concatenate to the original words.
C19_WindowsOverlap ==
  SizeSplit =>
    /\ Len(Windows) >= 2
    /\ \A i \in 2..Len(Windows) :
         /\ Len(Windows[i]) >= chunk_overlap
         /\ SubSeq(Windows[i], 1, chunk_overlap)
              = SubSeq(Windows[i - 1], Len(Windows[i - 1]) - chunk_overlap + 1,
                       Len(Windows[i - 1]))
    /\ \A i \in 1..(Len(Windows) - 1) : Len(Windows[i]) = chunk_size
    /\ Concat([i \in 1..Len(Windows) |->
                 IF i = 1 THEN Windows[1]
                 ELSE SubSeq(Windows[i], chunk_overlap + 1, Len(Windows[i]))]) = Words

\* A text of both letters has been split into three or more windows, the
\* last one holding a word beyond its overlap.
C19_Witness ==
  /\ SizeSplit
  /\ Len(Windows) >= 3
  /\ Len(Windows[Len(Windows)]) > chunk_overlap
  /\ \E i, j \in 1..Len(Words) : Words[i] # Words[j]

\* C20: after any sequence of add_documents calls every stored passage has
\* an id of its own, no add collides with an earlier passage, and count()
\* is the number of passages added.
C20_IdsUnique ==
  /\ \A i, j \in 1..Len(collection) : i # j => collection[i].id # collection[j].id
  /\ db_exc # "IDAlreadyExistsError"
  /\ count = added

\* C21: add_documents with len(documents) # len(embeddings) raises an error
\* before anything is stored: count() and the stored passages are the same
\* as before the call.
C21_MismatchStoresNothing ==
  [][\A documents \in Documents, n \in 1..MaxDocs :
       (add_documents(documents, n) /\ Len(documents) # n) =>
         /\ db_exc' = "ValueError"
         /\ collection' = collection
         /\ Len(collection') = Len(collection)]_vars

\* A call with mismatched lengths has raised on a database holding passages.
C21_Witness ==
  /\ db_exc = "ValueError"
  /\ collection # <<>>

\* C22: retrieve(query, top_k) with top_k <= 0 returns an empty list and
\* raises no error, whatever the index holds.
C22_NonPositiveTopK ==
  (search_pc # "idle" /\ top_k <= 0) => (search_pc = "returned" /\ results = <<>>)

\* The names passed to register so far, and the tool passed last under a name
RegisteredNames == {registered[i].name : i \in 1..Len(registered)}
LastRegistered(name) ==
  LET calls == {i \in 1..Len(registered) : registered[i].name = name}
  IN registered[CHOOSE i \in calls : \A j \in calls : j <= i]

\* C23: after any sequence of register calls the registry maps each name to
\* the tool most recently registered under it, register does not fail on a
\* name that is present, and list_tools holds each registered name once.
C23_LastRegistrationWins ==
  /\ \A i \in 1..Len(tools) : tools[i] = LastRegistered(tools[i].name)
  /\ {list_tools(tools)[i] : i \in 1..Len(tools)} = RegisteredNames
  /\ \A i, j \in 1..Len(tools) : i # j => list_tools(tools)[i] # list_tools(tools)[j]
  /\ \A tool \in Registrable :
       ((\A c \in Calls : ~Active(c))
          /\ Len(registered) < Len(DefaultTools(TRUE)) + MaxRegister)
       => ENABLED Register(tool)

\* A name has been registered a second time with another tool.
C23_Witness ==
  \E i, j \in 1..Len(registered) :
    i < j /\ registered[i] = LookupTool /\ registered[j] = LookupToolV2

\* The registered names without repetition, in the order of their first
\* registration
RECURSIVE FirstNames(_)
FirstNames(log) ==
  IF log = <<>> THEN <<>>
  ELSE LET before == FirstNames(SubSeq(log, 1, Len(log) - 1))
           name == log[Len(log)].name
       IN IF \E i \in 1..Len(before) : before[i] = name THEN before
          ELSE Append(before, name)

\* One line "- {name}: {description}" per registered name, joined by "\n"
ExpectedDescriptions ==
  LET names == FirstNames(registered)
  IN Join([i \in 1..Len(names) |->
             <<"- ", names[i], ": ", LastRegistered(names[i]).description>>])

\* C24: get_tool_descriptions returns one line "- {name}: {description}" per
\* registered name, joined by newlines, in registration order, also when a
\* name was registered more than once; two calls with no register between
\* them return the same text.
C24_OneLinePerName ==
  /\ [](get_tool_descriptions(tools) = ExpectedDescriptions)
  /\ [][registered' = registered =>
          get_tool_descriptions(tools') = get_tool_descriptions(tools)]_vars

\* CalculatorTool has been registered twice and a tool of the caller after it.
C24_Witness ==
  /\ Cardinality({i \in 1..Len(registered) : registered[i] = CalculatorTool}) = 2
  /\ registered[Len(registered)].name = "lookup"

\* The last direct call ran a built-in tool whose own execution failed
OwnFailure ==
  \/ /\ direct_call.tool = "calculator"
     /\ eval(direct_call.kwargs["expression"]).raises
  \/ /\ direct_call.tool = "knowledge_base_search"
     /\ direct_call.retrieve_raises

\* C25: a built-in tool turns a failure of its own execution into a
\* ToolResult with success = false, output = null and a non-null error
\* instead of raising; the error of the knowledge-base tool is the message
\* of the exception retrieve raised.
C25_FailureBecomesResult ==
  (/\ direct_pc # "idle"
   /\ \E i \in 1..Len(tools) : tools[i].name = direct_call.tool
   /\ BindsTo(direct_call.kwargs, direct_call.tool)
   /\ OwnFailure) =>
    /\ direct_pc = "returned"
    /\ ~direct_done.result.success
    /\ direct_done.result.output.is_none
    /\ direct_done.result.error # NoError
    /\ direct_call.tool = "knowledge_base_search" =>
         direct_done.result.error = <<"retrieve failed">>

\* C26: at every generation call the tool listing of the prompt is the
\* description text of the tools registered at that moment: the prompt
\* starts with the system prompt built from get_tool_descriptions() of the
\* registry as it is then, so a tool registered before the query is listed.
C26_PromptListsRegistry ==
  \A c \in Calls :
    pc[c] = "generating" =>
      LET listing == _build_system_prompt(AgentName, tools)
          prompt == prompts[c][Len(prompts[c])]
      IN /\ Len(prompt) >= Len(listing)
         /\ SubSeq(prompt, 1, Len(listing)) = listing

\* The transitions of the agent state within a run
Transitions ==
  {<<"running", "thinking">>, <<"thinking", "generating">>,
   <<"generating", "tool_calling">>, <<"tool_calling", "thinking">>,
   <<"generating", "completed">>}

\* C27: within a run the agent state changes only along RUNNING -> THINKING,
\* THINKING -> GENERATING, GENERATING -> TOOL_CALLING, TOOL_CALLING -> THINKING
\* and GENERATING -> COMPLETED: TOOL_CALLING is followed by THINKING and
\* COMPLETED is entered from GENERATING only.
C27_StateTransitions ==
  \A c \in Calls :
    /\ \A i \in 1..(Len(state_log[c]) - 1) :
         <<state_log[c][i], state_log[c][i + 1]>> \in Transitions
    /\ pc[c] = "returned" => state_log[c][Len(state_log[c])] # "tool_calling"

\* The first prompt of a run on query q: the system prompt and the user
\* message of the run, nothing else
FirstPrompt(q) ==
  system_prompt \o <<"\n\n", "USER", ": ", q, "\n", "ASSISTANT: ">>

\* C28: no conversation state survives from one run to the next: the first
\* prompt of a run holds only the system prompt and the run's user message,
\* and two runs of the same query with the same generation responses, made
\* after different histories of earlier calls, send the same prompts and
\* end the same way with the same response, iterations, success and
\* tool-call records.
C28_NoStateSurvives ==
  /\ \A c \in Calls : prompts[c] # <<>> => prompts[c][1] = FirstPrompt(query[c])
  /\ \A c, d \in Calls :
       (/\ ~Active(c) /\ ~Active(d) /\ pc[c] # "idle" /\ pc[d] # "idle"
        /\ query[c] = query[d]
        /\ responses[c] = responses[d]) =>
         /\ prompts[c] = prompts[d]
         /\ pc[c] = pc[d]
         /\ exc[c] = exc[d]
         /\ pc[c] = "returned" =>
              /\ ret[c].response = ret[d].response
              /\ ret[c].iterations = ret[d].iterations
              /\ ret[c].success = ret[d].success
              /\ ret[c].trace.tool_calls = ret[d].trace.tool_calls

\* Two runs of one query have returned on the same response, the second one
\* after the first had left its messages in the conversation.
C28_Witness ==
  /\ pc["A"] = "returned" /\ pc["B"] = "returned"
  /\ query["A"] = query["B"]
  /\ responses["A"] = responses["B"]
  /\ responses["A"] # <<>>

\* The paragraphs of the source text
Paragraphs == split_paragraphs(text, <<>>)

\* The text is made of two or more paragraphs separated by a double newline,
\* each one words separated by single spaces
ParagraphText ==
  /\ Len(Paragraphs) >= 2
  /\ \A i \in 1..Len(Paragraphs) :
       Paragraphs[i] # <<>> /\ _clean_text(Paragraphs[i]) = Paragraphs[i]

\* The list sub occurs in the list s as a run of consecutive elements
Contains(s, sub) ==
  \E k \in 0..(Len(s) - Len(sub)) : SubSeq(s, k + 1, k + Len(sub)) = sub

\* C29: chunk_text splits at the paragraph boundaries of the source text:
\* a paragraph that would make the running buffer reach chunk_size
\* characters starts a new passage, so the passages are those of the
\* paragraph chunks, and two paragraphs whose combined length is at least
\* chunk_size never end up in the same passage.
C29_SplitsAtParagraphs ==
  (chunker_pc = "returned" /\ chunk_overlap < chunk_size /\ ParagraphText) =>
    /\ [i \in 1..Len(chunk_list) |-> chunk_list[i].content]
         = _size_split(_semantic_split(text, chunk_size), chunk_size, chunk_overlap)
    /\ \A i \in 1..(Len(Paragraphs) - 1) :
         Len(Paragraphs[i]) + Len(Paragraphs[i + 1]) >= chunk_size =>
           \A k \in 1..Len(chunk_list) :
             ~Contains(split(chunk_list[k].content),
                       split(Paragraphs[i]) \o split(Paragraphs[i + 1]))

\* C30: the size split emits no window with zero remaining words: every
\* window after the first holds at least one word beyond the chunk_overlap
\* words carried over from the window before it, also when the last full
\* window ends at the last word.
C30_NoOverlapOnlyWindow ==
  SizeSplit => \A i \in 2..Len(Windows) : Len(Windows[i]) > chunk_overlap

====
